---- MODULE Spec2Model ----
(***************************************************************************)
(* State-machine model of the trajectory pipeline of poincare.c:           *)
(* main() parses the command line (of which the --arrow options are        *)
(* modelled), calls write_scanned_trajectories(HIDDEN) and then            *)
(* write_scanned_trajectories(VISIBLE); each call opens the input file,    *)
(* scans it trajectory by trajectory ('p' ... 'q' blocks), classifies the  *)
(* samples, cuts them into hidden/visible sub-trajectories and writes the  *)
(* MetaPost drawing statements.  write_additional_arrows() then writes     *)
(* the two halves of every arrow.                                          *)
(*                                                                         *)
(* The input file is a sequence of lexical items separated by blanks: a    *)
(* numeric field ("-1", "0", "1"), a single letter, a word, a quote mark,  *)
(* a '%' sign or a line feed.  getc() reads one item, fscanf("%f") and     *)
(* fscanf("%s") skip white space and read one item.  The line counter      *)
(* linenum and the verbose messages, which only feed diagnostics, are not  *)
(* part of the state.                                                      *)
(*                                                                         *)
(* A store past the end of an array is undefined behaviour: the model      *)
(* follows the run up to that store and then stops in pc = "undefined",    *)
(* a state that stands for every continuation and of which the properties  *)
(* below say nothing more.  A value that was never assigned is             *)
(* INDETERMINATE; whatever is computed from it is chosen freely.           *)
(***************************************************************************)
EXTENDS Integers, Sequences, FiniteSets, TLC

(***************************************************************************)
(* Bounds of the model.  The three array sizes are the program's           *)
(* MAX_NUM_STOKE_COORDS (5000), MAX_NUM_TICKMARKS (500), MAX_NUM_LABELS    *)
(* (50) and MAX_LABEL_TEXTLENGTH (256, also the size of tmpstr in          *)
(* scan_label), scaled down so that full arrays are reachable; so is       *)
(* MAX_NUM_ARROWS, the 24 columns of matrix(1,8,1,24) that                 *)
(* parse_command_line() allocates for map.arrows.                          *)
(***************************************************************************)
MAX_NUM_STOKE_COORDS == 5
MAX_NUM_TICKMARKS == 2
MAX_NUM_LABELS == 1
MAX_LABEL_TEXTLENGTH == 3
MaxPairLen == 2
MAX_NUM_ARROWS == 2

(***************************************************************************)
(* Program constants.                                                      *)
(***************************************************************************)
SUCCESS == 0
FAILURE == 1
HIDDEN == 0
VISIBLE == 1
NOLABEL == 0
TOPLABEL == 1
UPPERLEFTLABEL == 2
LEFTLABEL == 3
LOWERLEFTLABEL == 4
BOTTOMLABEL == 5
LOWERRIGHTLABEL == 6
RIGHTLABEL == 7
UPPERRIGHTLABEL == 8
RUNNING == 0 - 1

(* The value of an object that was never assigned (a float that fscanf     *)
(* left untouched at end of file, an array cell past the allocation).      *)
INDETERMINATE == 99

(* What getc() returns at end of file. *)
EOF == "EOF"

(***************************************************************************)
(* Lexical items.                                                          *)
(***************************************************************************)
Nums == {"-1", "0", "1"}
Letters == {"p", "q", "b", "e", "t", "l", "x"}
PosWords == {"top", "bot", "lft", "rt", "ulft", "urt", "llft", "lrt",
             "rgt", "urgt", "lrgt"}
Punct == {"%", "\n", "\""}
Items == Nums \cup Letters \cup PosWords \cup Punct

(* strtod() of a numeric field *)
NumVal(item) ==
    CASE item = "-1" -> 0 - 1
      [] item = "0" -> 0
      [] item = "1" -> 1

(* isalnum(ch) || ch == '-' || ch == '+' *)
IsAlnumOrSign(ch) == ch \in Nums \cup Letters \cup PosWords

(***************************************************************************)
(* Input files.  A triplet line is three numeric fields; V is a visible,   *)
(* H a hidden sample at rot_psi = rot_phi = 0.                             *)
(***************************************************************************)
PointV == <<"1", "0", "0">>
PointH == <<"-1", "0", "0">>
PointH2 == <<"-1", "1", "0">>
PointT == <<"0", "1", "0">>
PointN == <<"0", "0", "1">>

RECURSIVE Flatten(_)
Flatten(seqs) ==
    IF seqs = <<>> THEN <<>> ELSE Head(seqs) \o Flatten(Tail(seqs))

(* All sequences over S of length 0..n *)
SeqsUpTo(S, n) == UNION {[1..m -> S] : m \in 0..n}

(* 'p', the triplet lines, 'q' *)
PlainTrajectory(rows) ==
    <<"p", "\n">> \o Flatten([j \in 1..Len(rows) |-> rows[j] \o <<"\n">>])
        \o <<"q", "\n">>

(* One trajectory for every visibility pattern, also one sample too long   *)
(* for the arrays.                                                         *)
PatternFiles ==
    {PlainTrajectory(rows) :
        rows \in SeqsUpTo({PointV, PointH}, MAX_NUM_STOKE_COORDS + 1)}

(* Two trajectories in one file *)
PairFiles ==
    {PlainTrajectory(r1) \o PlainTrajectory(r2) :
        r1 \in SeqsUpTo({PointV, PointH}, MaxPairLen),
        r2 \in SeqsUpTo({PointV, PointH}, MaxPairLen)}

(* The example of the documentation *)
ExampleFile == PlainTrajectory(<<PointV, PointT, PointH>>)

LabelText(n) == <<"\"">> \o [j \in 1..n |-> "x"] \o <<"\"">>

(* A trajectory with begin label, tick mark, tick label and end label *)
LabelledFile ==
    <<"p", "b", "top">> \o LabelText(1) \o <<"\n">>
      \o PointV \o <<"t", "l", "urgt">> \o LabelText(1) \o <<"\n">>
      \o PointH2 \o <<"\n">>
      \o <<"q", "e", "bot">> \o LabelText(1) \o <<"\n">>

(* n tick marks, m of them labelled, with label texts of c characters *)
TickedFile(n, m, c) ==
    <<"p", "\n">>
      \o Flatten([j \in 1..n |->
            (CASE j % 3 = 1 -> PointV [] j % 3 = 2 -> PointH2
               [] OTHER -> PointN) \o <<"t">>
              \o (IF j <= m THEN <<"l", "lft">> \o LabelText(c) ELSE <<>>)
              \o <<"\n">>])
      \o <<"q", "\n">>

TickedFiles ==
    {TickedFile(n, m, c) :
        n \in 1..(MAX_NUM_TICKMARKS + 1), m \in 0..(MAX_NUM_LABELS + 3),
        c \in {1, MAX_LABEL_TEXTLENGTH}}

(* What is put into, or in the place of an item of, a well-formed file *)
Comment == <<"%", "x", "\n">>
Insertions == {<<it>> : it \in Items} \cup {Comment}

InsertAt(f, j, unit) == SubSeq(f, 1, j - 1) \o unit \o SubSeq(f, j, Len(f))
DeleteAt(f, j) == SubSeq(f, 1, j - 1) \o SubSeq(f, j + 1, Len(f))
TruncateAt(f, j) == SubSeq(f, 1, j - 1)

EditedFiles(f) ==
    {InsertAt(f, j, u) : j \in 1..(Len(f) + 1), u \in Insertions}
      \cup {DeleteAt(f, j) : j \in 1..Len(f)}
      \cup {TruncateAt(f, j) : j \in 1..Len(f)}
      \cup {SubSeq(f, 1, j - 1) \o <<w>> \o SubSeq(f, j + 1, Len(f)) :
              j \in {k \in 1..Len(f) : f[k] \in PosWords}, w \in PosWords}

(* A well-formed trajectory of two hidden samples, followed by a           *)
(* trajectory with a field that is no number, with an unknown position     *)
(* word, with a label text that lacks its closing quote, or with a tick    *)
(* mark on a sample that is followed by the same sample                    *)
FailingTrajectories ==
    {<<"p", "\n", "1", "x", "0", "\n", "q", "\n">>,
     <<"p", "b", "x">> \o LabelText(1) \o <<"\n">> \o PointV
        \o <<"\n", "q", "\n">>,
     <<"p", "b", "top", "\"", "x", "\n">> \o PointV \o <<"\n", "q", "\n">>,
     <<"p", "\n">> \o PointH \o <<"t", "\n">> \o PointH
        \o <<"\n", "q", "\n">>}

(* A trajectory closed by 'q e <pos> "text"' *)
EndLabelledTrajectory(rows) ==
    <<"p", "\n">> \o Flatten([j \in 1..Len(rows) |-> rows[j] \o <<"\n">>])
        \o <<"q", "e", "bot">> \o LabelText(1) \o <<"\n">>

(* A plain trajectory, then a trajectory with an end label *)
EndLabelledFiles ==
    {PlainTrajectory(r1) \o EndLabelledTrajectory(r2) :
        r1 \in SeqsUpTo({PointV, PointH}, MaxPairLen),
        r2 \in SeqsUpTo({PointV, PointH}, MaxPairLen) \ {<<>>}}

(* The trajectory with labels and a tick mark, then a plain trajectory *)
LabelledPairFile == LabelledFile \o PlainTrajectory(<<PointV, PointH>>)

FailingFiles ==
    {PlainTrajectory(<<PointH, PointH>>) \o f : f \in FailingTrajectories}

InputFiles ==
    PatternFiles \cup PairFiles \cup {ExampleFile} \cup TickedFiles
      \cup EditedFiles(LabelledFile)
      \cup EditedFiles(PlainTrajectory(<<PointV, PointH>>))
      \cup FailingFiles \cup EndLabelledFiles \cup {LabelledPairFile}

(* Every triplet of the numeric fields, and a trajectory of such a sample, *)
(* the sample opposite to it and the sample (0,1,0)                        *)
Triplets == {<<a, b, c>> : a \in Nums, b \in Nums, c \in Nums}

Negated(item) ==
    CASE item = "-1" -> "1"
      [] item = "0" -> "0"
      [] item = "1" -> "-1"

Opposite(p) == <<Negated(p[1]), Negated(p[2]), Negated(p[3])>>

OppositeFiles ==
    {PlainTrajectory(<<p, Opposite(p), PointT>>) : p \in Triplets}

(* The arguments of an --arrow option: the end points, the line type V1    *)
(* and the blackness V2; numeric is FALSE when a field is no number        *)
ArrowOption(pa, pb, v1, isnum) ==
    [pa |-> pa, pb |-> pb, v1 |-> v1, v2 |-> 1, numeric |-> isnum]

ArrowOptions ==
    {ArrowOption(<<1, 0, 0>>, <<0, 1, 0>>, 0, TRUE),
     ArrowOption(<<1, 0, 0>>, <<0, 0, 1>>, 1, TRUE),
     ArrowOption(<<0, 1, 0>>, <<1, 0, 1>>, 2, TRUE),
     ArrowOption(<<1, 0, 0>>, <<0, 1, 0>>, 0, FALSE)}

(* Command lines of up to one --arrow option more than map.arrows holds *)
CommandLines == SeqsUpTo(ArrowOptions, MAX_NUM_ARROWS + 1)

(***************************************************************************)
(* The state of a run.                                                     *)
(***************************************************************************)
VARIABLES
    file,       \* the input file, an unchanging sequence of items
    argv,       \* the --arrow options of the command line not yet parsed
    map,        \* the pmap struct: the settings of the run and the arrows
    viewtype,   \* the pass main() is in: HIDDEN, then VISIBLE
    pc,         \* the statement of write_scanned_trajectories() reached
    pos,        \* read position of infileptr: the next item is file[pos]
    st,         \* the stoketraject struct
    coord,      \* coordinate counter of write_scanned_trajectories()
    i,          \* trajectory counter of write_scanned_trajectories()
    lab,        \* locals of scan_label(): slot, k, tmpstr, and the caller
    out,        \* the drawing statements written to outfileptr, in order
    calls,      \* the calls of add_subtrajectory() made so far, in order
    exitcode    \* exit status of the process, RUNNING until it ends

vars == <<file, argv, map, viewtype, pc, pos, st, coord, i, lab, out, calls,
          exitcode>>

CoordIdx == 1..MAX_NUM_STOKE_COORDS
TickIdx == 1..MAX_NUM_TICKMARKS
LabelIdx == 1..(MAX_NUM_LABELS + 2)

(* reset_stokes_trajectory_struct(): every counter and array cell cleared *)
ResetStruct ==
    [numcoords |-> 0,
     s1 |-> [k \in CoordIdx |-> 0],
     s2 |-> [k \in CoordIdx |-> 0],
     s3 |-> [k \in CoordIdx |-> 0],
     visible |-> [k \in CoordIdx |-> 0],
     numtickmarks |-> 0,
     tickmark |-> [k \in TickIdx |-> 0],
     numlabels |-> 0,
     label |-> [k \in LabelIdx |-> 0],
     labeltext |-> [k \in LabelIdx |-> <<>>],
     labellength |-> [k \in LabelIdx |-> 0],
     labelpos |-> [k \in LabelIdx |-> NOLABEL]]

NoLabelScan ==
    [lnum |-> 0, k |-> 0, tmpstr |-> <<>>, caller |-> "none", coordnum |-> 0]

(* The settings: angles in quarter turns, so that sin and cos are exact;   *)
(* no arrow is stored before the command line is parsed                    *)
Settings(psi, phi, norm) ==
    [rot_psi |-> psi, rot_phi |-> phi, use_normalized_stokes_params |-> norm,
     draw_paths_as_arrows |-> FALSE, reverse_arrow_paths |-> FALSE,
     draw_hidden_dashed |-> FALSE, use_bezier_curves |-> FALSE,
     numarrows |-> 0, arrows |-> <<>>]

DefaultMap == Settings(0, 0, FALSE)

Maps ==
    {Settings(psi, phi, norm) :
        psi \in 0..3, phi \in 0..3, norm \in BOOLEAN}

(* The settings after --draw_paths_as_arrows, --reverse_arrow_paths or both *)
PathArrowMaps ==
    {[DefaultMap EXCEPT !.draw_paths_as_arrows = d, !.reverse_arrow_paths = r] :
        d \in BOOLEAN, r \in BOOLEAN} \ {DefaultMap}

(* The runs: every input file under the default settings, the trajectories *)
(* of opposite samples under every rotation, the visibility patterns with  *)
(* paths drawn as arrows, and the command lines with --arrow options       *)
Runs ==
    [file : InputFiles, argv : {<<>>}, map : {DefaultMap}]
      \cup [file : OppositeFiles, argv : {<<>>}, map : Maps]
      \cup [file : PatternFiles \cup PairFiles, argv : {<<>>},
            map : PathArrowMaps]
      \cup [file : {ExampleFile}, argv : CommandLines, map : {DefaultMap}]

(***************************************************************************)
(* Reading the input file.                                                 *)
(***************************************************************************)
(* getc(): the item at p, EOF past the end; ungetc(EOF) changes nothing *)
Getc(f, p) == IF p > Len(f) THEN EOF ELSE f[p]

(* The rest of a comment line: up to and including the line feed, or EOF *)
RECURSIVE SkipLine(_, _)
SkipLine(f, p) ==
    IF p > Len(f) THEN p
    ELSE IF f[p] = "\n" THEN p + 1
    ELSE SkipLine(f, p + 1)

(* readaway_comments_and_blanks(): the position of the next alphanumeric   *)
(* item or sign, or of end of file                                         *)
RECURSIVE ReadawayCommentsAndBlanks(_, _)
ReadawayCommentsAndBlanks(f, p) ==
    IF p > Len(f) THEN p
    ELSE IF IsAlnumOrSign(f[p]) THEN p
    ELSE IF f[p] = "%" THEN ReadawayCommentsAndBlanks(f, SkipLine(f, p + 1))
    ELSE ReadawayCommentsAndBlanks(f, p + 1)

(* The white space fscanf() skips before a conversion *)
RECURSIVE SkipWhite(_, _)
SkipWhite(f, p) ==
    IF p <= Len(f) /\ f[p] = "\n" THEN SkipWhite(f, p + 1) ELSE p

(* fscanf(infileptr,"%f",&x): rc 1 and the value, rc 0 on a field that is  *)
(* no number (left unread), rc -1 (EOF) at end of file; x is assigned      *)
(* only when rc = 1                                                        *)
FscanfFloat(f, p) ==
    LET q == SkipWhite(f, p) IN
    IF q > Len(f) THEN [rc |-> 0 - 1, val |-> INDETERMINATE, pos |-> q]
    ELSE IF f[q] \in Nums THEN [rc |-> 1, val |-> NumVal(f[q]), pos |-> q + 1]
    ELSE [rc |-> 0, val |-> INDETERMINATE, pos |-> q]

(* fscanf(infileptr,"%s",tmpstr): rc 1 and the word, rc -1 at end of file *)
FscanfString(f, p) ==
    LET q == SkipWhite(f, p) IN
    IF q > Len(f) THEN [rc |-> 0 - 1, str |-> EOF, pos |-> q]
    ELSE [rc |-> 1, str |-> f[q], pos |-> q + 1]

(* The strcmp() chain of scan_label(): the flag of a position word, and    *)
(* NOLABEL for a word the chain does not know                              *)
LabelPosOf(str) ==
    CASE str = "top" -> TOPLABEL
      [] str = "ulft" -> UPPERLEFTLABEL
      [] str = "lft" -> LEFTLABEL
      [] str = "llft" -> LOWERLEFTLABEL
      [] str = "bot" -> BOTTOMLABEL
      [] str = "lrgt" -> LOWERRIGHTLABEL
      [] str = "rgt" -> RIGHTLABEL
      [] str = "urgt" -> UPPERRIGHTLABEL
      [] OTHER -> NOLABEL

(***************************************************************************)
(* Geometry.                                                               *)
(***************************************************************************)
Cos4(a) == CASE a % 4 = 0 -> 1 [] a % 4 = 1 -> 0 [] a % 4 = 2 -> 0 - 1
             [] OTHER -> 0
Sin4(a) == CASE a % 4 = 0 -> 0 [] a % 4 = 1 -> 1 [] a % 4 = 2 -> 0
             [] OTHER -> 0 - 1

(* A read of an array cell; past the allocation the value is arbitrary *)
ReadCell(arr, k) == IF k \in DOMAIN arr THEN arr[k] ELSE INDETERMINATE

Determinate(a, b, c) ==
    a # INDETERMINATE /\ b # INDETERMINATE /\ c # INDETERMINATE

(* visible() without its test: every sample visible *)
visibleAlways(s1, s2, s3, m) == 1

(* visible() with the test vprod > 0.0 *)
visibleStrictly(s1, s2, s3, m) ==
    LET vprod == s1 * Cos4(m.rot_psi) * Cos4(m.rot_phi)
                   - s2 * Sin4(m.rot_psi) * Cos4(m.rot_phi)
                   + s3 * Sin4(m.rot_phi)
    IN IF vprod > 0 THEN 1 ELSE 0

(* visible(): 1 when vprod >= 0.0, else 0 *)
visible(s1, s2, s3, m) ==
    LET vprod == s1 * Cos4(m.rot_psi) * Cos4(m.rot_phi)
                   - s2 * Sin4(m.rot_psi) * Cos4(m.rot_phi)
                   + s3 * Sin4(m.rot_phi)
    IN IF vprod >= 0 THEN 1 ELSE 0

(* sort_out_visible_and_hidden(): the visible[] arrays the loop can leave; *)
(* one array, unless a sample holds an arbitrary value                     *)
SortOutVisibleAndHidden(stv, m) ==
    {vis \in [CoordIdx -> {0, 1}] :
        \A k \in CoordIdx :
            IF k <= stv.numcoords
            THEN Determinate(stv.s1[k], stv.s2[k], stv.s3[k])
                    => vis[k] = visible(stv.s1[k], stv.s2[k], stv.s3[k], m)
            ELSE vis[k] = stv.visible[k]}

(* get_screen_coordinates(): x and y, and the square d2 of the norm they   *)
(* are divided by (1 without normalization); d2 = 0 is a division by zero  *)
GetScreenCoordinates(s1, s2, s3, m) ==
    IF ~Determinate(s1, s2, s3)
    THEN [x |-> INDETERMINATE, y |-> INDETERMINATE, d2 |-> 1]
    ELSE [x |-> s1 * Sin4(m.rot_psi) + s2 * Cos4(m.rot_psi),
          y |-> 0 - s1 * Cos4(m.rot_psi) * Sin4(m.rot_phi)
                  + s2 * Sin4(m.rot_psi) * Sin4(m.rot_phi)
                  + s3 * Cos4(m.rot_phi),
          d2 |-> IF m.use_normalized_stokes_params
                 THEN s1 * s1 + s2 * s2 + s3 * s3 ELSE 1]

(***************************************************************************)
(* Cutting a trajectory into sub-trajectories.                             *)
(***************************************************************************)
(* What the two routines below return when they call exit(1) *)
EXITED == 2

(* point_just_became_hidden() without its case k = 1 *)
PointJustBecameHiddenNoFirst(vis, n, k) ==
    IF k = 1 THEN 0
    ELSE IF 2 <= k /\ k <= n
    THEN (IF ReadCell(vis, k) = 0 /\ ReadCell(vis, k - 1) = 1 THEN 1 ELSE 0)
    ELSE EXITED

(* point_just_became_hidden() *)
PointJustBecameHidden(vis, n, k) ==
    IF k = 1 THEN (IF ReadCell(vis, k) = 0 THEN 1 ELSE 0)
    ELSE IF 2 <= k /\ k <= n
    THEN (IF ReadCell(vis, k) = 0 /\ ReadCell(vis, k - 1) = 1 THEN 1 ELSE 0)
    ELSE EXITED

(* point_just_became_visible() without its case k = 1 *)
PointJustBecameVisibleNoFirst(vis, n, k) ==
    IF k = 1 THEN 0
    ELSE IF 2 <= k /\ k <= n
    THEN (IF ReadCell(vis, k) = 1 /\ ReadCell(vis, k - 1) = 0 THEN 1 ELSE 0)
    ELSE EXITED

(* point_just_became_visible() *)
PointJustBecameVisible(vis, n, k) ==
    IF k = 1 THEN (IF ReadCell(vis, k) = 1 THEN 1 ELSE 0)
    ELSE IF 2 <= k /\ k <= n
    THEN (IF ReadCell(vis, k) = 1 /\ ReadCell(vis, k - 1) = 0 THEN 1 ELSE 0)
    ELSE EXITED

(* The inner while loop of add_hidden_subtrajectories(): the k it ends at *)
RECURSIVE HiddenInnerLoop(_, _, _, _, _)
HiddenInnerLoop(vis, n, k, ka, kb) ==
    IF k <= n /\ kb < ka
    THEN LET r == PointJustBecameVisible(vis, n, k) IN
         IF r = EXITED THEN [k |-> k, exit |-> TRUE]
         ELSE IF r = 1 THEN HiddenInnerLoop(vis, n, k, ka, k - 1)
         ELSE HiddenInnerLoop(vis, n, k + 1, ka, kb)
    ELSE [k |-> k, exit |-> FALSE]

(* add_hidden_subtrajectories() from index k on: the add_subtrajectory()   *)
(* calls it makes, as <ka, kb> passed and <cka, ckb> found by the loops    *)
RECURSIVE HiddenLoop(_, _, _, _)
HiddenLoop(vis, n, k, acc) ==
    IF k <= n
    THEN LET r == PointJustBecameHidden(vis, n, k) IN
         IF r = EXITED THEN [calls |-> acc, exit |-> TRUE]
         ELSE IF r = 1
         THEN LET in == HiddenInnerLoop(vis, n, k, k, k - 1) IN
              IF in.exit THEN [calls |-> acc, exit |-> TRUE]
              ELSE HiddenLoop(vis, n, in.k + 1,
                     Append(acc, [type |-> "hidden", ka |-> k,
                                  kb |-> in.k - 1, cka |-> k,
                                  ckb |-> in.k - 1]))
         ELSE HiddenLoop(vis, n, k + 1, acc)
    ELSE [calls |-> acc, exit |-> FALSE]

AddHiddenSubtrajectories(vis, n) == HiddenLoop(vis, n, 1, <<>>)

(* The inner while loop of add_visible_subtrajectories() *)
RECURSIVE VisibleInnerLoop(_, _, _, _, _)
VisibleInnerLoop(vis, n, k, ka, kb) ==
    IF k <= n /\ kb < ka
    THEN LET r == PointJustBecameHidden(vis, n, k) IN
         IF r = EXITED THEN [k |-> k, exit |-> TRUE]
         ELSE IF r = 1 THEN VisibleInnerLoop(vis, n, k, ka, k - 1)
         ELSE VisibleInnerLoop(vis, n, k + 1, ka, kb)
    ELSE [k |-> k, exit |-> FALSE]

(* The first index left as the loops found it *)
ExtendKaNever(ka) == ka

(* The first index stepped back over two samples *)
ExtendKaByTwo(ka) == IF ka > 2 THEN ka - 2 ELSE 1

(* The step back of the first index: ka is lowered when ka > 1 *)
ExtendKa(ka) == IF ka > 1 THEN ka - 1 ELSE ka

(* The last index left as the loops found it *)
ExtendKbNever(kb, n) == kb

(* The step on of the last index without its test of kb *)
ExtendKbUnguarded(kb, n) == kb + 1

(* The step on of the last index: kb is raised when kb < numcoords *)
ExtendKb(kb, n) == IF kb < n THEN kb + 1 ELSE kb

(* add_visible_subtrajectories() from index k on *)
RECURSIVE VisibleLoop(_, _, _, _)
VisibleLoop(vis, n, k, acc) ==
    IF k <= n
    THEN LET r == PointJustBecameVisible(vis, n, k) IN
         IF r = EXITED THEN [calls |-> acc, exit |-> TRUE]
         ELSE IF r = 1
         THEN LET in == VisibleInnerLoop(vis, n, k, k, k - 1) IN
              IF in.exit THEN [calls |-> acc, exit |-> TRUE]
              ELSE VisibleLoop(vis, n, in.k + 1,
                     Append(acc, [type |-> "visible", ka |-> ExtendKa(k),
                                  kb |-> ExtendKb(in.k - 1, n), cka |-> k,
                                  ckb |-> in.k - 1]))
         ELSE VisibleLoop(vis, n, k + 1, acc)
    ELSE [calls |-> acc, exit |-> FALSE]

AddVisibleSubtrajectories(vis, n) == VisibleLoop(vis, n, 1, <<>>)

(* add_scanned_trajectory() as it was before the viewtype flag: hidden and *)
(* visible parts of a trajectory written in the same pass                  *)
SubtrajectoriesOfBothKinds(vis, n, vt) ==
    [calls |-> AddHiddenSubtrajectories(vis, n).calls
                 \o AddVisibleSubtrajectories(vis, n).calls,
     exit |-> FALSE]

(* add_scanned_trajectory(), after the sorting: the routine of the pass *)
SubtrajectoriesOfPass(vis, n, vt) ==
    IF vt = HIDDEN THEN AddHiddenSubtrajectories(vis, n)
    ELSE IF vt = VISIBLE THEN AddVisibleSubtrajectories(vis, n)
    ELSE [calls |-> <<>>, exit |-> TRUE]

(* add_subtrajectory() that draws nothing *)
AddNoSubtrajectory(stv, ka, kb, m, type, traj) == <<>>

(* add_subtrajectory(): nothing for fewer than two points, else one path   *)
(* through the samples ka..kb and the statement that draws it              *)
AddSubtrajectory(stv, ka, kb, m, type, traj) ==
    IF ka < kb
    THEN <<[prim |-> IF kb = stv.numcoords /\ m.draw_paths_as_arrows
                     THEN (IF m.reverse_arrow_paths
                           THEN "drawarrow reverse" ELSE "drawarrow")
                     ELSE "draw",
            type |-> type, traj |-> traj, ka |-> ka, kb |-> kb,
            pts |-> [j \in 1..(kb - ka + 1) |->
                       GetScreenCoordinates(ReadCell(stv.s1, ka + j - 1),
                                            ReadCell(stv.s2, ka + j - 1),
                                            ReadCell(stv.s3, ka + j - 1), m)],
            joins |-> IF m.use_bezier_curves THEN ".." ELSE "--",
            style |-> IF type = "hidden"
                      THEN (IF m.draw_hidden_dashed
                            THEN "dashed" ELSE "graytone")
                      ELSE "black"]>>
    ELSE <<>>

(* The paths of a sequence of add_subtrajectory() calls *)
RECURSIVE PathsOfCalls(_, _, _, _)
PathsOfCalls(stv, cs, m, traj) ==
    IF cs = <<>> THEN <<>>
    ELSE AddSubtrajectory(stv, Head(cs).ka, Head(cs).kb, m, Head(cs).type,
                          traj)
           \o PathsOfCalls(stv, Tail(cs), m, traj)

(***************************************************************************)
(* Tick marks and labels.                                                  *)
(***************************************************************************)
StokesVector(stv, k) ==
    <<ReadCell(stv.s1, k), ReadCell(stv.s2, k), ReadCell(stv.s3, k)>>

VecDetermined(a) == Determinate(a[1], a[2], a[3])
VecSub(a, b) == <<a[1] - b[1], a[2] - b[2], a[3] - b[3]>>
VecCross(a, b) ==
    <<a[2] * b[3] - a[3] * b[2], a[3] * b[1] - a[1] * b[3],
      a[1] * b[2] - a[2] * b[1]>>
VecIsZero(a) == a[1] = 0 /\ a[2] = 0 /\ a[3] = 0

(* The samples get_tickmark_screen_coordinates() reads for tick mark k:    *)
(* the sample itself and the two the tangent is the difference of; empty   *)
(* when the index is in none of the three cases (exit(1))                  *)
TickmarkSamples(stv, k) ==
    LET t == stv.tickmark[k] IN
    IF t = 1 THEN <<t, t + 1, t>>
    ELSE IF t = stv.numcoords THEN <<t, t, t - 1>>
    ELSE IF 1 < t /\ t < stv.numcoords THEN <<t, t + 1, t - 1>>
    ELSE <<>>

(* get_tickmark_screen_coordinates(): "exit" when the routine ends the     *)
(* run (index out of range, or a NaN coordinate: a zero tangent, a zero    *)
(* Stokes vector or a tangent along the Stokes vector), "unknown" when it  *)
(* computes with an arbitrary value, else "ok"                             *)
GetTickmarkScreenCoordinates(stv, k) ==
    LET idx == TickmarkSamples(stv, k) IN
    IF idx = <<>> THEN "exit"
    ELSE LET s == StokesVector(stv, idx[1])
             a == StokesVector(stv, idx[2])
             b == StokesVector(stv, idx[3])
         IN IF ~(VecDetermined(s) /\ VecDetermined(a) /\ VecDetermined(b))
            THEN "unknown"
            ELSE IF VecIsZero(VecSub(a, b)) \/ VecIsZero(s)
                      \/ VecIsZero(VecCross(s, VecSub(a, b)))
            THEN "exit"
            ELSE "ok"

(* add_scanned_tickmarks() with every tick mark drawn in the VISIBLE pass *)
RECURSIVE TickmarkLoopInVisiblePass(_, _, _, _, _, _)
TickmarkLoopInVisiblePass(stv, k, vt, traj, g, acc) ==
    IF k <= stv.numtickmarks
    THEN LET r == GetTickmarkScreenCoordinates(stv, k) IN
         IF r = "exit" \/ (r = "unknown" /\ g)
         THEN [out |-> acc, exit |-> TRUE]
         ELSE TickmarkLoopInVisiblePass(stv, k + 1, vt, traj, g,
                IF vt = VISIBLE
                THEN Append(acc, [prim |-> "tick", type |-> "visible",
                                  traj |-> traj, at |-> stv.tickmark[k],
                                  style |-> "black"])
                ELSE acc)
    ELSE [out |-> acc, exit |-> FALSE]

(* add_scanned_tickmarks() from tick mark k on; g decides the tick marks   *)
(* computed from arbitrary values                                          *)
RECURSIVE TickmarkLoop(_, _, _, _, _, _)
TickmarkLoop(stv, k, vt, traj, g, acc) ==
    IF k <= stv.numtickmarks
    THEN LET r == GetTickmarkScreenCoordinates(stv, k)
             t == stv.tickmark[k]
         IN IF r = "exit" \/ (r = "unknown" /\ g)
            THEN [out |-> acc, exit |-> TRUE]
            ELSE TickmarkLoop(stv, k + 1, vt, traj, g,
                   IF ReadCell(stv.visible, t) = 1 /\ vt = VISIBLE
                   THEN Append(acc, [prim |-> "tick", type |-> "visible",
                                     traj |-> traj, at |-> t,
                                     style |-> "black"])
                   ELSE IF ReadCell(stv.visible, t) = 0 /\ vt = HIDDEN
                   THEN Append(acc, [prim |-> "tick", type |-> "hidden",
                                     traj |-> traj, at |-> t,
                                     style |-> "graytone"])
                   ELSE acc)
    ELSE [out |-> acc, exit |-> FALSE]

(* The label suffix add_scanned_labels() writes for a position flag *)
LabelSuffix(flag) ==
    CASE flag = TOPLABEL -> "top"
      [] flag = UPPERLEFTLABEL -> "ulft"
      [] flag = LEFTLABEL -> "lft"
      [] flag = LOWERLEFTLABEL -> "llft"
      [] flag = BOTTOMLABEL -> "bot"
      [] flag = LOWERRIGHTLABEL -> "lrt"
      [] flag = RIGHTLABEL -> "rt"
      [] flag = UPPERRIGHTLABEL -> "urt"
      [] OTHER -> "invalid"

(* add_scanned_labels() from slot k on *)
RECURSIVE LabelLoop(_, _, _, _, _)
LabelLoop(stv, k, m, traj, acc) ==
    IF k <= MAX_NUM_LABELS + 2
    THEN IF stv.labellength[k] > 0
         THEN IF LabelSuffix(stv.labelpos[k]) = "invalid"
              THEN [out |-> acc, exit |-> TRUE]
              ELSE LabelLoop(stv, k + 1, m, traj,
                     Append(acc,
                       [prim |-> "label", traj |-> traj, slot |-> k,
                        suffix |-> LabelSuffix(stv.labelpos[k]),
                        text |-> stv.labeltext[k], at |-> stv.label[k],
                        xy |-> GetScreenCoordinates(
                                 ReadCell(stv.s1, stv.label[k]),
                                 ReadCell(stv.s2, stv.label[k]),
                                 ReadCell(stv.s3, stv.label[k]), m)]))
         ELSE LabelLoop(stv, k + 1, m, traj, acc)
    ELSE [out |-> acc, exit |-> FALSE]

(***************************************************************************)
(* The arrows.  The loop variable t of write_additional_arrows() is a      *)
(* double; its values are kept exactly, as multiples of 2^-58 (the unit    *)
(* in the last place of dt = 0.02) written <<hi, lo>> for hi * 2^30 + lo,  *)
(* and t += dt is the IEEE 754 addition: the exact sum rounded to 53       *)
(* significant bits, ties to even.                                         *)
(***************************************************************************)
LIMB == 1073741824

(* dt = 0.02, t = 0.0, t = 0.5, and the loop limits 0.5 + dt/1000.0 and    *)
(* 1.0 + dt/1000.0 as the doubles the expressions evaluate to              *)
DT == <<5368709, 128849019>>
T_ZERO == <<0, 0>>
T_HALF == <<134217728, 0>>
T_HALF_LIMIT == <<134223096, 761411808>>
T_ONE_LIMIT == <<268440824, 761411776>>

RECURSIVE BitLength(_)
BitLength(n) == IF n = 0 THEN 0 ELSE 1 + BitLength(n \div 2)

RECURSIVE Pow2(_)
Pow2(n) == IF n = 0 THEN 1 ELSE 2 * Pow2(n - 1)

(* The bits of hi * 2^30 + lo beyond the 53 a double holds *)
ExcessBits(hi, lo) ==
    LET nb == IF hi > 0 THEN BitLength(hi) + 30 ELSE BitLength(lo) IN
    IF nb > 53 THEN nb - 53 ELSE 0

(* lo rounded to a multiple of m, ties to the even multiple *)
RoundToEven(lo, m) ==
    LET r == lo % m
        base == lo - r
    IN IF m > 1 /\ (2 * r > m \/ (2 * r = m /\ (base \div m) % 2 = 1))
       THEN base + m ELSE base

(* a + b of two doubles *)
DoubleAdd(a, b) ==
    LET lo == (a[2] + b[2]) % LIMB
        hi == a[1] + b[1] + ((a[2] + b[2]) \div LIMB)
        rounded == RoundToEven(lo, Pow2(ExcessBits(hi, lo)))
    IN <<hi + (rounded \div LIMB), rounded % LIMB>>

(* a <= b of two doubles *)
DoubleLeq(a, b) == a[1] < b[1] \/ (a[1] = b[1] /\ a[2] <= b[2])

(* for (t=from;t<=limit;t+=dt): the values of t the body runs with *)
RECURSIVE ArrowLoop(_, _, _)
ArrowLoop(t, limit, acc) ==
    IF DoubleLeq(t, limit)
    THEN ArrowLoop(DoubleAdd(t, DT), limit, Append(acc, t))
    ELSE acc

(* The first loop, for (t=0.0;t<=0.5+dt/1000.0;t+=dt) *)
FirstHalf == ArrowLoop(T_ZERO, T_HALF_LIMIT, <<>>)

(* The second loop, for (t=0.5;t<=1.0+dt/1000.0;t+=dt) *)
SecondHalf == ArrowLoop(T_HALF, T_ONE_LIMIT, <<>>)

(* The draw statement after a half: the first half is drawn as an arrow,   *)
(* the second as a line, solid for a line type in [-0.5,0.5), dashed for   *)
(* one in [0.5,1.5), and not at all for any other line type                *)
ArrowStroke(half, v1) ==
    IF v1 = 0 \/ v1 = 1
    THEN [stroke |-> IF half = 1 THEN "drawarrow" ELSE "draw",
          style |-> IF v1 = 0 THEN "solid" ELSE "dashed"]
    ELSE [stroke |-> "none", style |-> "none"]

(* The path of one half of arrow k: one point for every value of t, the    *)
(* point of the chord pa..pb at t, put back on the unit sphere and         *)
(* projected                                                               *)
ArrowPath(m, k, half, ts) ==
    [prim |-> "arrow", type |-> "arrow", traj |-> 0, arrow |-> k,
     half |-> half,
     pts |-> [j \in 1..Len(ts) |->
                [pa |-> m.arrows[k].pa, pb |-> m.arrows[k].pb, t |-> ts[j]]],
     stroke |-> ArrowStroke(half, m.arrows[k].v1).stroke,
     style |-> ArrowStroke(half, m.arrows[k].v1).style,
     blackness |-> m.arrows[k].v2]

(* for (i=1;i<=map.numarrows;i++) of write_additional_arrows() from k on *)
RECURSIVE ArrowsLoop(_, _, _)
ArrowsLoop(m, k, acc) ==
    IF k <= m.numarrows
    THEN ArrowsLoop(m, k + 1,
           acc \o <<ArrowPath(m, k, 1, FirstHalf),
                    ArrowPath(m, k, 2, SecondHalf)>>)
    ELSE acc

(***************************************************************************)
(* Initial state: main() is about to call parse_command_line(); the        *)
(* settings other than the arrows are taken as parsed.                     *)
(***************************************************************************)
Init ==
    /\ \E r \in Runs : file = r.file /\ argv = r.argv /\ map = r.map
    /\ viewtype = HIDDEN
    /\ pc = "parse"
    /\ pos = 1
    /\ st = ResetStruct
    /\ coord = 0
    /\ i = 0
    /\ lab = NoLabelScan
    /\ out = <<>>
    /\ calls = <<>>
    /\ exitcode = RUNNING

(* exit(1) *)
Exit ==
    /\ pc' = "exit"
    /\ exitcode' = FAILURE

(* A store past the end of an array: what follows is undefined *)
Undefined ==
    /\ pc' = "undefined"
    /\ exitcode' = exitcode

(* One round of while(--argc) of parse_command_line(): an --arrow option   *)
(* raises map.numarrows and stores its eight arguments in column numarrows *)
(* of map.arrows, with no test of the index; exit(FAILURE) when an         *)
(* argument is no number.  With no option left main() goes on.             *)
ParseCommandLine ==
    /\ pc = "parse"
    /\ IF argv = <<>>
       THEN /\ pc' = "open"
            /\ UNCHANGED <<argv, map, exitcode>>
       ELSE LET n == map.numarrows + 1 IN
            /\ argv' = Tail(argv)
            /\ IF n > MAX_NUM_ARROWS
               THEN /\ map' = [map EXCEPT !.numarrows = n]
                    /\ Undefined
               ELSE IF ~Head(argv).numeric
               THEN /\ map' = [map EXCEPT !.numarrows = n]
                    /\ Exit
               ELSE /\ map' = [map EXCEPT !.numarrows = n,
                                          !.arrows = Append(@, Head(argv))]
                    /\ pc' = "parse"
                    /\ exitcode' = exitcode
    /\ UNCHANGED <<file, viewtype, pos, st, coord, i, lab, out, calls>>

(* write_scanned_trajectories(), up to the loop: the struct is allocated   *)
(* and cleared, the file is opened, the counters are set                   *)
OpenInfile ==
    /\ pc = "open"
    /\ st' = ResetStruct
    /\ pos' = 1
    /\ coord' = 0
    /\ i' = 0
    /\ pc' = "new_trajectory"
    /\ UNCHANGED <<file, argv, map, viewtype, lab, out, calls, exitcode>>

(* while (new_trajectory(infileptr)): a 'p' starts a trajectory, anything  *)
(* else, put back, ends the loop                                           *)
NewTrajectory ==
    /\ pc = "new_trajectory"
    /\ IF Getc(file, pos) = "p"
       THEN /\ i' = i + 1
            /\ pos' = ReadawayCommentsAndBlanks(file, pos + 1)
            /\ pc' = "beginlabel"
       ELSE /\ pc' = "close"
            /\ UNCHANGED <<i, pos>>
    /\ UNCHANGED <<file, argv, map, viewtype, st, coord, lab, out, calls, exitcode>>

(* if (beginlabel(infileptr)) scan_beginlabel(...); st.numcoords=0; *)
BeginLabel ==
    /\ pc = "beginlabel"
    /\ IF Getc(file, pos) = "b"
       THEN /\ pos' = pos + 1
            /\ lab' = [lnum |-> 1, k |-> 0, tmpstr |-> <<>>,
                       caller |-> "begin", coordnum |-> 1]
            /\ st' = st
            /\ pc' = "scan_label"
       ELSE /\ st' = [st EXCEPT !.numcoords = 0]
            /\ pc' = "end_of_trajectory"
            /\ UNCHANGED <<pos, lab>>
    /\ UNCHANGED <<file, argv, map, viewtype, coord, i, out, calls, exitcode>>

(* What tmpstr can hold after fscanf("%s"): the word read, or, at end of   *)
(* file, whatever the array held before                                    *)
ScannedWords(r) == IF r.rc = 1 THEN {r.str} ELSE PosWords \cup {"x"}

(* scan_label() up to the loop over the label text: the anchor index is    *)
(* stored, the position word is read and turned into its flag (exit(1) on  *)
(* an unknown word), blanks are skipped and the opening quote is read      *)
(* (exit(1) on anything else)                                              *)
ScanLabel ==
    /\ pc = "scan_label"
    /\ LET r == FscanfString(file, ReadawayCommentsAndBlanks(file, pos)) IN
       \E word \in ScannedWords(r) :
         IF LabelPosOf(word) = NOLABEL
         THEN /\ st' = [st EXCEPT !.label[lab.lnum] = lab.coordnum]
              /\ pos' = r.pos
              /\ lab' = lab
              /\ Exit
         ELSE /\ st' = [st EXCEPT !.label[lab.lnum] = lab.coordnum,
                                  !.labelpos[lab.lnum] = LabelPosOf(word)]
              /\ IF Getc(file, r.pos) = "\""
                 THEN /\ pos' = r.pos + 1
                      /\ lab' = [lab EXCEPT !.k = 0, !.tmpstr = <<>>]
                      /\ pc' = "label_text"
                      /\ exitcode' = exitcode
                 ELSE /\ pos' = r.pos
                      /\ lab' = lab
                      /\ Exit
    /\ UNCHANGED <<file, argv, map, viewtype, coord, i, out, calls>>

(* Where the caller of scan_label() goes on *)
AfterLabel(caller) ==
    IF caller = "end" THEN "add_trajectory" ELSE "end_of_trajectory"

(* One round of while ((ch=getc(infileptr))!='"') of scan_label(): the     *)
(* closing quote ends the loop, the text is copied to the slot and the     *)
(* caller reads away blanks; a line feed is exit(1); any other character,  *)
(* the EOF value too, is stored in tmpstr[k]                               *)
ScanLabelText ==
    /\ pc = "label_text"
    /\ LET ch == Getc(file, pos) IN
       IF ch = "\""
       THEN /\ st' = [st EXCEPT !.labellength[lab.lnum] = lab.k,
                                !.labeltext[lab.lnum] = lab.tmpstr,
                                !.numcoords = IF lab.caller = "begin"
                                              THEN 0 ELSE @]
            /\ pos' = ReadawayCommentsAndBlanks(file, pos + 1)
            /\ lab' = NoLabelScan
            /\ pc' = AfterLabel(lab.caller)
            /\ exitcode' = exitcode
       ELSE IF ch = "\n"
       THEN /\ lab' = [lab EXCEPT !.k = @ + 1]
            /\ pos' = pos + 1
            /\ st' = st
            /\ Exit
       ELSE IF lab.k + 1 >= MAX_LABEL_TEXTLENGTH
       THEN /\ lab' = [lab EXCEPT !.k = @ + 1]
            /\ pos' = pos
            /\ st' = st
            /\ Undefined
       ELSE /\ lab' = [lab EXCEPT !.k = @ + 1, !.tmpstr = Append(@, ch)]
            /\ pos' = IF ch = EOF THEN pos ELSE pos + 1
            /\ st' = st
            /\ pc' = "label_text"
            /\ exitcode' = exitcode
    /\ UNCHANGED <<file, argv, map, viewtype, coord, i, out, calls>>

(* while (!end_of_trajectory(infileptr)): a 'q' ends the trajectory,       *)
(* anything else, the EOF value too, is put back and the body runs         *)
EndOfTrajectory ==
    /\ pc = "end_of_trajectory"
    /\ IF Getc(file, pos) = "q"
       THEN /\ pos' = ReadawayCommentsAndBlanks(file, pos + 1)
            /\ pc' = "endlabel"
       ELSE /\ pos' = pos
            /\ pc' = "scan_triplet"
    /\ UNCHANGED <<file, argv, map, viewtype, st, coord, i, lab, out, calls,
                   exitcode>>

(* The value a float holds after fscanf("%f") *)
Scanned(r) == IF r.rc = 1 THEN r.val ELSE INDETERMINATE

(* scan_for_stokes_triplet(), coord++ and readaway_comments_and_blanks():  *)
(* exit(1) when a field is no number; else the triplet is stored at        *)
(* numcoords+1, with no test of the index nor of end of file               *)
ScanForStokesTriplet ==
    /\ pc = "scan_triplet"
    /\ LET r1 == FscanfFloat(file, pos)
           r2 == FscanfFloat(file, r1.pos)
           r3 == FscanfFloat(file, r2.pos)
           n == st.numcoords + 1
       IN IF r1.rc = 0 \/ r2.rc = 0 \/ r3.rc = 0
          THEN /\ pos' = (IF r1.rc = 0 THEN r1.pos
                          ELSE IF r2.rc = 0 THEN r2.pos ELSE r3.pos)
               /\ UNCHANGED <<st, coord>>
               /\ Exit
          ELSE IF n > MAX_NUM_STOKE_COORDS
          THEN /\ st' = [st EXCEPT !.numcoords = n]
               /\ pos' = r3.pos
               /\ coord' = coord
               /\ Undefined
          ELSE /\ st' = [st EXCEPT !.numcoords = n,
                                   !.s1[n] = Scanned(r1),
                                   !.s2[n] = Scanned(r2),
                                   !.s3[n] = Scanned(r3)]
               /\ coord' = coord + 1
               /\ pos' = ReadawayCommentsAndBlanks(file, r3.pos)
               /\ pc' = "scan_tickmark"
               /\ exitcode' = exitcode
    /\ UNCHANGED <<file, argv, map, viewtype, i, lab, out, calls>>

(* scan_for_tickmark() and readaway_comments_and_blanks() *)
ScanForTickmark ==
    /\ pc = "scan_tickmark"
    /\ IF Getc(file, pos) = "t"
       THEN IF st.numtickmarks + 1 > MAX_NUM_TICKMARKS
            THEN /\ st' = [st EXCEPT !.numtickmarks = @ + 1]
                 /\ pos' = pos + 1
                 /\ Undefined
            ELSE /\ st' = [st EXCEPT !.numtickmarks = @ + 1,
                                     !.tickmark[st.numtickmarks + 1] =
                                         st.numcoords]
                 /\ pos' = ReadawayCommentsAndBlanks(file, pos + 1)
                 /\ pc' = "scan_tickmarklabel"
                 /\ exitcode' = exitcode
       ELSE /\ pos' = ReadawayCommentsAndBlanks(file, pos)
            /\ st' = st
            /\ pc' = "scan_tickmarklabel"
            /\ exitcode' = exitcode
    /\ UNCHANGED <<file, argv, map, viewtype, coord, i, lab, out, calls>>

(* scan_for_tickmarklabel(), up to its call of scan_label(): an 'l' takes  *)
(* the next slot, numlabels+1, with no test of the index                   *)
ScanForTickmarklabel ==
    /\ pc = "scan_tickmarklabel"
    /\ IF Getc(file, pos) = "l"
       THEN IF st.numlabels + 1 > MAX_NUM_LABELS + 2
            THEN /\ st' = [st EXCEPT !.numlabels = @ + 1]
                 /\ pos' = pos + 1
                 /\ lab' = lab
                 /\ Undefined
            ELSE /\ st' = [st EXCEPT !.numlabels = @ + 1,
                                     !.label[st.numlabels + 1] = st.numcoords]
                 /\ pos' = pos + 1
                 /\ lab' = [lnum |-> st.numlabels + 1, k |-> 0,
                            tmpstr |-> <<>>, caller |-> "tick",
                            coordnum |-> st.numcoords]
                 /\ pc' = "scan_label"
                 /\ exitcode' = exitcode
       ELSE /\ pos' = ReadawayCommentsAndBlanks(file, pos)
            /\ UNCHANGED <<st, lab>>
            /\ pc' = "end_of_trajectory"
            /\ exitcode' = exitcode
    /\ UNCHANGED <<file, argv, map, viewtype, coord, i, out, calls>>

(* if (endlabel(infileptr)) scan_endlabel(...,coord); *)
EndLabel ==
    /\ pc = "endlabel"
    /\ IF Getc(file, pos) = "e"
       THEN /\ pos' = pos + 1
            /\ lab' = [lnum |-> MAX_NUM_LABELS + 2, k |-> 0, tmpstr |-> <<>>,
                       caller |-> "end", coordnum |-> coord]
            /\ pc' = "scan_label"
       ELSE /\ pc' = "add_trajectory"
            /\ UNCHANGED <<pos, lab>>
    /\ UNCHANGED <<file, argv, map, viewtype, st, coord, i, out, calls, exitcode>>

(* The calls of add_subtrajectory(), with the trajectory, the pass and     *)
(* the number of samples they were made for                                *)
Annotate(cs, traj, vt, n) ==
    [j \in 1..Len(cs) |->
        [type |-> cs[j].type, ka |-> cs[j].ka, kb |-> cs[j].kb,
         cka |-> cs[j].cka, ckb |-> cs[j].ckb,
         traj |-> traj, pass |-> vt, n |-> n]]

(* add_scanned_trajectory() *)
AddScannedTrajectory ==
    /\ pc = "add_trajectory"
    /\ \E vis \in SortOutVisibleAndHidden(st, map) :
         LET r == SubtrajectoriesOfPass(vis, st.numcoords, viewtype) IN
         /\ st' = [st EXCEPT !.visible = vis]
         /\ calls' = calls \o Annotate(r.calls, i, viewtype, st.numcoords)
         /\ out' = out \o PathsOfCalls(st, r.calls, map, i)
         /\ IF r.exit
            THEN Exit
            ELSE /\ pc' = "add_tickmarks"
                 /\ exitcode' = exitcode
    /\ UNCHANGED <<file, argv, map, viewtype, pos, coord, i, lab>>

(* add_scanned_tickmarks() *)
AddScannedTickmarks ==
    /\ pc = "add_tickmarks"
    /\ \E g \in IF \E k \in 1..st.numtickmarks :
                     GetTickmarkScreenCoordinates(st, k) = "unknown"
                THEN BOOLEAN ELSE {FALSE} :
         LET r == TickmarkLoop(st, 1, viewtype, i, g, <<>>) IN
         /\ out' = out \o r.out
         /\ IF r.exit
            THEN Exit
            ELSE /\ pc' = "add_labels"
                 /\ exitcode' = exitcode
    /\ UNCHANGED <<file, argv, map, viewtype, pos, st, coord, i, lab, calls>>

(* add_scanned_labels() *)
AddScannedLabels ==
    /\ pc = "add_labels"
    /\ LET r == LabelLoop(st, 1, map, i, <<>>) IN
       /\ out' = out \o r.out
       /\ IF r.exit
          THEN Exit
          ELSE /\ pc' = "reset"
               /\ exitcode' = exitcode
    /\ UNCHANGED <<file, argv, map, viewtype, pos, st, coord, i, lab, calls>>

(* The end of the loop body without the reset: the struct is kept *)
KeepStokesTrajectoryStruct ==
    /\ pc = "reset"
    /\ pc' = "new_trajectory"
    /\ UNCHANGED <<file, argv, map, viewtype, pos, st, coord, i, lab, out,
                   calls, exitcode>>

(* reset_stokes_trajectory_struct(&st) at the end of the loop body *)
ResetStokesTrajectoryStruct ==
    /\ pc = "reset"
    /\ st' = ResetStruct
    /\ pc' = "new_trajectory"
    /\ UNCHANGED <<file, argv, map, viewtype, pos, coord, i, lab, out, calls,
                   exitcode>>

(* The pass main() makes after the pass vt; VISIBLE is the last one *)
NextPass(vt) == IF vt = HIDDEN THEN VISIBLE ELSE HIDDEN

(* fclose(infileptr) and the return to main(): after the HIDDEN pass the   *)
(* VISIBLE pass is called, after the VISIBLE pass the arrows are written   *)
CloseInfile ==
    /\ pc = "close"
    /\ IF viewtype = HIDDEN
       THEN /\ viewtype' = NextPass(viewtype)
            /\ pc' = "open"
            /\ exitcode' = exitcode
       ELSE /\ viewtype' = viewtype
            /\ pc' = "arrows"
            /\ exitcode' = exitcode
    /\ UNCHANGED <<file, argv, map, pos, st, coord, i, lab, out, calls>>

(* write_additional_arrows(), and the rest of main() up to return(0) *)
WriteAdditionalArrows ==
    /\ pc = "arrows"
    /\ out' = out \o ArrowsLoop(map, 1, <<>>)
    /\ pc' = "done"
    /\ exitcode' = SUCCESS
    /\ UNCHANGED <<file, argv, map, viewtype, pos, st, coord, i, lab, calls>>

Next ==
    \/ ParseCommandLine
    \/ OpenInfile
    \/ NewTrajectory
    \/ BeginLabel
    \/ ScanLabel
    \/ ScanLabelText
    \/ EndOfTrajectory
    \/ ScanForStokesTriplet
    \/ ScanForTickmark
    \/ ScanForTickmarklabel
    \/ EndLabel
    \/ AddScannedTrajectory
    \/ AddScannedTickmarks
    \/ AddScannedLabels
    \/ ResetStokesTrajectoryStruct
    \/ CloseInfile
    \/ WriteAdditionalArrows

Spec == Init /\ [][Next]_vars

TypeOK ==
    /\ pc \in {"parse", "arrows", "open", "new_trajectory", "beginlabel", "scan_label",
               "label_text", "end_of_trajectory", "scan_triplet",
               "scan_tickmark", "scan_tickmarklabel", "endlabel",
               "add_trajectory", "add_tickmarks", "add_labels", "reset",
               "close", "done", "exit", "undefined"}
    /\ viewtype \in {HIDDEN, VISIBLE}
    /\ exitcode \in {RUNNING, SUCCESS, FAILURE}
    /\ pos \in 1..(Len(file) + 1)

(***************************************************************************)
(* Properties.                                                             *)
(***************************************************************************)
IsPath(prim) == prim.prim \in {"draw", "drawarrow", "drawarrow reverse"}

HiddenPaths == {a \in DOMAIN out : IsPath(out[a]) /\ out[a].type = "hidden"}
VisiblePaths == {a \in DOMAIN out : IsPath(out[a]) /\ out[a].type = "visible"}

(* C1: every hidden sub-path of the output, of whatever trajectory of the  *)
(* file, stands before every visible sub-path; while the HIDDEN pass is    *)
(* scanning the file no visible sub-path has been written.                 *)
C1_HiddenPassBeforeVisiblePass ==
    /\ \A a \in HiddenPaths : \A b \in VisiblePaths : a < b
    /\ viewtype = HIDDEN => VisiblePaths = {}

(* A finished run on a file of two trajectories: the second one has a      *)
(* hidden sub-path, the first one a visible sub-path.                      *)
C1_Witness ==
    /\ pc = "done"
    /\ \E a \in HiddenPaths : out[a].traj = 2
    /\ \E b \in VisiblePaths : out[b].traj = 1

(* The calls of add_subtrajectory() made for the trajectory being flushed *)
CallsOfTrajectory == {c \in DOMAIN calls : calls[c].traj = i}

(* C2: when both passes have cut a trajectory of N samples, every index    *)
(* 1..N lies in the range found by the loops (before the step back and the *)
(* step on) of exactly one hidden or visible sub-trajectory.               *)
C2_CoreRangesPartition ==
    (pc = "add_tickmarks" /\ viewtype = VISIBLE) =>
        \A j \in 1..st.numcoords :
            Cardinality({c \in CallsOfTrajectory :
                            calls[c].cka <= j /\ j <= calls[c].ckb}) = 1

(* A trajectory of four samples cut into two hidden and two visible runs *)
C2_Witness ==
    /\ pc = "add_tickmarks"
    /\ viewtype = VISIBLE
    /\ st.numcoords = 4
    /\ Cardinality({c \in CallsOfTrajectory : calls[c].type = "hidden"}) = 2
    /\ Cardinality({c \in CallsOfTrajectory : calls[c].type = "visible"}) = 2

(* C3: the indices ka and kb that add_visible_subtrajectories() passes to  *)
(* add_subtrajectory() lie in 1..N, and so does every sample a visible     *)
(* path was drawn through.                                                 *)
C3_VisibleRangeWithinTrajectory ==
    /\ \A c \in DOMAIN calls :
          calls[c].type = "visible" =>
              (1 <= calls[c].ka /\ calls[c].kb <= calls[c].n)
    /\ \A b \in VisiblePaths :
          \A j \in DOMAIN out[b].pts : out[b].pts[j].x # INDETERMINATE

(* One visible run that holds the first sample and is stepped on at its    *)
(* end, and one that holds the last sample and is stepped back at its      *)
(* start.                                                                  *)
C3_Witness ==
    \E c, d \in DOMAIN calls :
        /\ calls[c].type = "visible" /\ calls[d].type = "visible"
        /\ calls[c].traj = calls[d].traj
        /\ calls[c].cka = 1 /\ calls[c].ka = 1
        /\ calls[c].kb = calls[c].ckb + 1
        /\ calls[d].ckb = calls[d].n /\ calls[d].kb = calls[d].n
        /\ calls[d].ka = calls[d].cka - 1

(* The input has ended inside a 'p' block: the loop over the triplets is   *)
(* at its test or in its body and only white space is left to read         *)
AtEndOfFileInBlock ==
    /\ pc \in {"end_of_trajectory", "scan_triplet"}
    /\ SkipWhite(file, pos) > Len(file)

(* C4: when the input ends inside a 'p' block, the run ends with           *)
(* exit(FAILURE): no further sample is recorded and nothing is drawn.      *)
C4_UnterminatedBlockAborts ==
    [][AtEndOfFileInBlock =>
          /\ pc' \in {"scan_triplet", "exit"}
          /\ pc' = "exit" => exitcode' = FAILURE
          /\ st'.numcoords = st.numcoords
          /\ out' = out]_vars

Range(seq) == {seq[j] : j \in DOMAIN seq}

(* C5: no round of the loop over the triplets and no round of the loop     *)
(* over the label text is made at end of file: no sample whose last field  *)
(* was not read is stored, and the EOF value never enters the label text.  *)
C5_LoopsStopAtEndOfFile ==
    /\ ~(pc = "scan_tickmark" /\ st.s3[st.numcoords] = INDETERMINATE)
    /\ EOF \notin Range(lab.tmpstr)

(* C6: while samples are read from the file (the input has not ended),    *)
(* numcoords never exceeds MAX_NUM_STOKE_COORDS, the size of s1, s2 and    *)
(* s3: a longer trajectory is refused, not stored past the arrays.         *)
C6_CapacityRespected ==
    pos <= Len(file) => st.numcoords <= MAX_NUM_STOKE_COORDS

(* C7: a tick label is never scanned into slot 1 (begin label) nor into    *)
(* slot MAX_NUM_LABELS+2 (end label) nor past the slots.                   *)
C7_TickLabelSlotsReserved ==
    /\ lab.caller = "tick" => (1 < lab.lnum /\ lab.lnum < MAX_NUM_LABELS + 2)
    /\ st.numlabels <= MAX_NUM_LABELS + 2

(* The position codes of the documentation and their placements *)
DocumentedPlacement(word) ==
    CASE word = "top" -> TOPLABEL
      [] word = "bot" -> BOTTOMLABEL
      [] word = "lft" -> LEFTLABEL
      [] word = "rt" -> RIGHTLABEL
      [] word = "ulft" -> UPPERLEFTLABEL
      [] word = "urt" -> UPPERRIGHTLABEL
      [] word = "llft" -> LOWERLEFTLABEL
      [] word = "lrt" -> LOWERRIGHTLABEL
      [] OTHER -> NOLABEL

(* The word scan_label() is about to read *)
WordAhead == FscanfString(file, ReadawayCommentsAndBlanks(file, pos))

(* C8: scan_label() gives each of top, bot, lft, rt, ulft, urt, llft, lrt  *)
(* its placement, and ends the run with exit(FAILURE) on any other word.   *)
C8_PositionCodes ==
    [][(pc = "scan_label" /\ WordAhead.rc = 1) =>
          IF DocumentedPlacement(WordAhead.str) # NOLABEL
          THEN st'.labelpos[lab.lnum] = DocumentedPlacement(WordAhead.str)
          ELSE pc' = "exit" /\ exitcode' = FAILURE]_vars

(* The next item stands on the line of the triplet (or tick mark) read     *)
(* last and is a word: neither a number, nor 't', 'l' or 'q', nor the end  *)
(* of the file                                                             *)
TrailingWordAhead ==
    /\ pc = "scan_triplet"
    /\ st.numcoords >= 1
    /\ pos > 1
    /\ file[pos - 1] \in Nums \cup {"t"}
    /\ Getc(file, pos) \in (Letters \cup PosWords) \ {"t", "l", "q"}

(* C9: a word that follows the triplet on its line is read away: the run   *)
(* does not end there.                                                     *)
C9_TrailingTextIgnored ==
    [][TrailingWordAhead => pc' # "exit"]_vars

(* The position after the comment lines and line feeds that start at p *)
RECURSIVE SkipCommentsAndBlankLines(_, _)
SkipCommentsAndBlankLines(f, p) ==
    IF p > Len(f) THEN p
    ELSE IF f[p] = "\n" THEN SkipCommentsAndBlankLines(f, p + 1)
    ELSE IF f[p] = "%" THEN SkipCommentsAndBlankLines(f, SkipLine(f, p + 1))
    ELSE p

(* C10: a 'p' that follows comment lines or blank lines starts a           *)
(* trajectory, as a 'p' without them does.                                 *)
C10_CommentsBeforeTrajectory ==
    [][(pc = "new_trajectory"
          /\ Getc(file, SkipCommentsAndBlankLines(file, pos)) = "p")
       => pc' = "beginlabel"]_vars

(* The trajectory has been read to its 'q' and its samples are classified *)
Classified ==
    /\ pc \in {"add_tickmarks", "add_labels", "reset"}
    /\ \A k \in 1..st.numcoords :
          Determinate(st.s1[k], st.s2[k], st.s3[k])

(* s1*cos(psi)*cos(phi) - s2*sin(psi)*cos(phi) + s3*sin(phi) of sample k *)
TerminatorScalar(k) ==
    st.s1[k] * Cos4(map.rot_psi) * Cos4(map.rot_phi)
      - st.s2[k] * Sin4(map.rot_psi) * Cos4(map.rot_phi)
      + st.s3[k] * Sin4(map.rot_phi)

(* C11: a sample is classified visible iff its scalar is >= 0; a sample    *)
(* whose scalar is 0 is visible, and of two samples whose scalars are      *)
(* opposite and not 0 one is visible and the other hidden.                 *)
C11_VisibleIffScalarNonNegative ==
    Classified =>
        /\ \A k \in 1..st.numcoords :
              /\ st.visible[k] = 1 <=> TerminatorScalar(k) >= 0
              /\ TerminatorScalar(k) = 0 => st.visible[k] = 1
        /\ \A k, j \in 1..st.numcoords :
              (TerminatorScalar(k) # 0
                 /\ TerminatorScalar(j) = 0 - TerminatorScalar(k))
              => st.visible[k] # st.visible[j]

(* Under a rotation, a sample on the terminator and two samples with       *)
(* opposite scalars that are not 0 have been classified                    *)
C11_Witness ==
    /\ Classified
    /\ map.rot_phi = 1
    /\ \E k \in 1..st.numcoords :
          TerminatorScalar(k) = 0 /\ st.visible[k] = 1
    /\ \E k, j \in 1..st.numcoords :
          /\ TerminatorScalar(k) > 0
          /\ TerminatorScalar(j) = 0 - TerminatorScalar(k)
          /\ st.visible[k] = 1 /\ st.visible[j] = 0

(* The run on the example (1,0,0), (0,1,0), (-1,0,0) of the documentation, *)
(* with psi = 0, phi = 0 and no normalization                              *)
ExampleRun ==
    /\ file = ExampleFile
    /\ map.rot_psi = 0 /\ map.rot_phi = 0
    /\ ~map.use_normalized_stokes_params

(* C12: on the example no hidden sub-path is ever written, and when both   *)
(* passes are over exactly one visible sub-path has been written, through  *)
(* the samples 1, 2 and 3.                                                 *)
C12_ExampleOneVisiblePath ==
    ExampleRun =>
        /\ HiddenPaths = {}
        /\ Cardinality(VisiblePaths) <= 1
        /\ \A b \in VisiblePaths :
              out[b].ka = 1 /\ out[b].kb = 3 /\ Len(out[b].pts) = 3
        /\ pc \in {"arrows", "done"} => Cardinality(VisiblePaths) = 1

(* The run on the example is over and a visible sub-path was written *)
C12_Witness ==
    /\ ExampleRun
    /\ pc = "done"
    /\ argv = <<>> /\ map.numarrows = 0
    /\ VisiblePaths # {}

(* C13 (as corrected): on the example the samples (1,0,0) and (0,1,0),     *)
(* with scalars 1 and 0, are classified visible and the sample (-1,0,0),   *)
(* with scalar -1, is classified hidden; the trajectory is cut into the    *)
(* visible run 1..2 and the hidden run 3..3.                               *)
C13_ExampleThirdSampleHidden ==
    (ExampleRun /\ Classified) =>
        /\ st.numcoords = 3
        /\ st.visible[1] = 1 /\ st.visible[2] = 1 /\ st.visible[3] = 0
        /\ \A c \in CallsOfTrajectory :
              \/ calls[c].type = "visible" /\ calls[c].cka = 1
                    /\ calls[c].ckb = 2
              \/ calls[c].type = "hidden" /\ calls[c].cka = 3
                    /\ calls[c].ckb = 3
        /\ viewtype = VISIBLE => Cardinality(CallsOfTrajectory) = 2

(* The samples of the example have been classified in the VISIBLE pass *)
C13_Witness ==
    /\ ExampleRun
    /\ Classified
    /\ viewtype = VISIBLE
    /\ Cardinality(CallsOfTrajectory) = 2

(* C13 as stated: on the example all three samples are classified visible, *)
(* so that the trajectory is a single run.                                 *)
C13_ExampleAllVisible ==
    (ExampleRun /\ Classified) =>
        \A k \in 1..st.numcoords : st.visible[k] = 1

(* C14: when the run ends with exit(FAILURE), no drawing statement of the  *)
(* run is in the output.                                                   *)
C14_NoOutputOnFailure ==
    (pc = "exit" /\ exitcode = FAILURE) => out = <<>>

(* The points a path of the output was drawn through with a zero norm *)
ZeroNormPoints(a) == {j \in DOMAIN out[a].pts : out[a].pts[j].d2 = 0}

(* C15: no path of the output holds coordinates that were divided by the   *)
(* norm of a sample s1 = s2 = s3 = 0: with normalization the run ends at   *)
(* such a sample.                                                          *)
C15_ZeroNormAborts ==
    \A a \in DOMAIN out : IsPath(out[a]) => ZeroNormPoints(a) = {}

(* C16: map.numarrows never exceeds MAX_NUM_ARROWS, the number of columns  *)
(* of map.arrows: one --arrow option more ends the run with an error.      *)
C16_ArrowCapacityRespected == map.numarrows <= MAX_NUM_ARROWS

(* The two halves of the arrows written: <<a, b>> with out[a] the first    *)
(* and out[b] the second half of the same arrow                            *)
ArrowHalves ==
    {h \in (DOMAIN out) \X (DOMAIN out) :
        /\ out[h[1]].prim = "arrow" /\ out[h[2]].prim = "arrow"
        /\ out[h[1]].arrow = out[h[2]].arrow
        /\ out[h[1]].half = 1 /\ out[h[2]].half = 2}

(* C17: the last point of the first half of an arrow is the first point of *)
(* its second half: both are the point of the chord at t = 0.5.            *)
C17_HalvesJoinAtMidpoint ==
    \A h \in ArrowHalves :
        out[h[1]].pts[Len(out[h[1]].pts)] = out[h[2]].pts[1]

(* The flag of the class a pass cuts out: 0 in the HIDDEN pass, 1 in the   *)
(* VISIBLE pass                                                            *)
ClassOfPass == IF viewtype = HIDDEN THEN 0 ELSE 1

(* The calls of add_subtrajectory() the pass under way made for the        *)
(* trajectory being flushed                                                *)
CallsOfPass == {c \in CallsOfTrajectory : calls[c].pass = viewtype}

(* Sample k has the class of the pass and is the first sample or follows   *)
(* a sample of the other class                                             *)
RunStartsAt(k) ==
    /\ st.visible[k] = ClassOfPass
    /\ (k = 1 \/ st.visible[k - 1] # ClassOfPass)

(* C18: the runs a pass finds in a trajectory of N samples are the maximal *)
(* runs of its class: a run starts at k exactly when sample k has the      *)
(* class and k = 1 or sample k-1 has the other class, it holds samples of  *)
(* the class only, and it ends at N or before a sample of the other class. *)
C18_RunsAreMaximal ==
    pc = "add_tickmarks" =>
        /\ \A k \in 1..st.numcoords :
              RunStartsAt(k) <=> (\E c \in CallsOfPass : calls[c].cka = k)
        /\ \A c \in CallsOfPass :
              /\ calls[c].cka <= calls[c].ckb
              /\ calls[c].ckb <= st.numcoords
              /\ \A j \in calls[c].cka..calls[c].ckb :
                    st.visible[j] = ClassOfPass
              /\ (calls[c].ckb = st.numcoords
                    \/ st.visible[calls[c].ckb + 1] # ClassOfPass)
        /\ \A c, d \in CallsOfPass :
              calls[c].cka = calls[d].cka => c = d

(* A trajectory of at least four samples cut by the VISIBLE pass into two  *)
(* runs, one of them of more than one sample                               *)
C18_Witness ==
    /\ pc = "add_tickmarks"
    /\ viewtype = VISIBLE
    /\ st.numcoords >= 4
    /\ Cardinality(CallsOfPass) = 2
    /\ \E c \in CallsOfPass : calls[c].cka < calls[c].ckb

(* C19: a hidden run is passed to add_subtrajectory() with the indices the *)
(* loops found, a visible run with ka-1 when ka > 1 and kb+1 when kb < N;  *)
(* every sample of a hidden sub-path written is classified hidden.         *)
C19_OnlyVisibleRunsWidened ==
    /\ \A c \in DOMAIN calls :
          IF calls[c].type = "hidden"
          THEN calls[c].ka = calls[c].cka /\ calls[c].kb = calls[c].ckb
          ELSE /\ calls[c].ka =
                    (IF calls[c].cka > 1 THEN calls[c].cka - 1
                     ELSE calls[c].cka)
               /\ calls[c].kb =
                    (IF calls[c].ckb < calls[c].n THEN calls[c].ckb + 1
                     ELSE calls[c].ckb)
    /\ pc = "add_tickmarks" =>
          \A a \in HiddenPaths :
              out[a].traj = i =>
                  \A j \in out[a].ka..out[a].kb : st.visible[j] = 0

(* A hidden run of two samples inside a trajectory, written as a path, and *)
(* a visible run widened at both ends                                      *)
C19_Witness ==
    /\ pc = "add_tickmarks"
    /\ \E a \in HiddenPaths :
          out[a].traj = i /\ 1 < out[a].ka /\ out[a].kb < st.numcoords
    /\ \E c \in CallsOfTrajectory :
          /\ calls[c].type = "visible"
          /\ calls[c].ka = calls[c].cka - 1
          /\ calls[c].kb = calls[c].ckb + 1

(* The paths of the output written for the call c of add_subtrajectory() *)
PathsOfCall(c) ==
    {a \in DOMAIN out :
        /\ IsPath(out[a])
        /\ out[a].traj = calls[c].traj /\ out[a].type = calls[c].type
        /\ out[a].ka = calls[c].ka /\ out[a].kb = calls[c].kb}

(* C20 (as corrected): a run becomes exactly one sub-path when the range   *)
(* passed to add_subtrajectory() holds two samples or more, and no path    *)
(* otherwise.  A hidden run of one sample is dropped; a visible run of one *)
(* sample is dropped only in a trajectory of one sample, for it is widened *)
(* by its neighbours first.  Every path written stems from a run.          *)
C20_PathPerRunOfTwoSamples ==
    /\ \A c \in DOMAIN calls :
          /\ Cardinality(PathsOfCall(c)) =
                (IF calls[c].ka < calls[c].kb THEN 1 ELSE 0)
          /\ calls[c].ka < calls[c].kb <=>
                \/ calls[c].cka < calls[c].ckb
                \/ calls[c].type = "visible" /\ calls[c].n > 1
    /\ \A a \in HiddenPaths \cup VisiblePaths :
          \E c \in DOMAIN calls : a \in PathsOfCall(c)

(* A visible run of one sample between two hidden samples was written as   *)
(* a path of three samples, and a hidden run of one sample was dropped     *)
C20_Witness ==
    /\ \E c \in DOMAIN calls :
          /\ calls[c].type = "visible"
          /\ calls[c].cka = calls[c].ckb
          /\ calls[c].kb = calls[c].ka + 2
          /\ PathsOfCall(c) # {}
    /\ \E c \in DOMAIN calls :
          /\ calls[c].type = "hidden"
          /\ calls[c].cka = calls[c].ckb
          /\ PathsOfCall(c) = {}

(* C20 as stated: for hidden and visible runs alike, a run of two samples  *)
(* or more becomes exactly one sub-path and a run of one sample none.      *)
C20_RunsOfOneSampleDropped ==
    \A c \in DOMAIN calls :
        Cardinality(PathsOfCall(c)) =
            (IF calls[c].cka < calls[c].ckb THEN 1 ELSE 0)

(* The paths of the output drawn with an arrowhead *)
IsArrowedPath(a) == IsPath(out[a]) /\ out[a].prim # "draw"

(* The statement add_subtrajectory() draws an arrowed path with *)
ArrowPrimitive ==
    IF map.reverse_arrow_paths THEN "drawarrow reverse" ELSE "drawarrow"

(* C21 (as corrected): with draw_paths_as_arrows a sub-path is drawn with  *)
(* drawarrow, reversed when reverse_arrow_paths is set, exactly when the   *)
(* range handed to add_subtrajectory() ends at the last sample N: the run  *)
(* contains N, or it is a visible run that ends at N-1 and was widened     *)
(* over a last hidden sample.  Every other sub-path, and every sub-path    *)
(* without draw_paths_as_arrows, is a plain stroke.                        *)
C21_ArrowOnPathEndingAtLastSample ==
    \A c \in DOMAIN calls : \A a \in PathsOfCall(c) :
        out[a].prim =
            (IF /\ map.draw_paths_as_arrows
                /\ \/ calls[c].ckb = calls[c].n
                   \/ calls[c].type = "visible" /\ calls[c].ckb = calls[c].n - 1
             THEN ArrowPrimitive ELSE "draw")

(* Of a trajectory of three samples or more whose last sample alone is     *)
(* hidden, the visible run before it was drawn as a reversed arrow, and a  *)
(* visible run further from the end as a plain stroke                     *)
C21_Witness ==
    /\ map.draw_paths_as_arrows /\ map.reverse_arrow_paths
    /\ \E c \in DOMAIN calls : \E a \in PathsOfCall(c) :
          /\ calls[c].type = "visible"
          /\ calls[c].ckb = calls[c].n - 1
          /\ out[a].prim = "drawarrow reverse"
    /\ \E c \in DOMAIN calls : \E a \in PathsOfCall(c) :
          /\ calls[c].ckb < calls[c].n - 1
          /\ out[a].prim = "draw"

(* C21 as stated: with draw_paths_as_arrows only the run that contains the *)
(* last sample N in its core range is drawn as an arrow.                   *)
C21_ArrowOnlyOnRunHoldingLastSample ==
    \A c \in DOMAIN calls : \A a \in PathsOfCall(c) :
        IsArrowedPath(a) => calls[c].ckb = calls[c].n

(* The pairs <<c, d>> of calls of add_subtrajectory() made in this order   *)
(* in the same pass over the same trajectory                               *)
CallsInOrder ==
    {q \in (DOMAIN calls) \X (DOMAIN calls) :
        /\ q[1] < q[2]
        /\ calls[q[1]].traj = calls[q[2]].traj
        /\ calls[q[1]].pass = calls[q[2]].pass}

(* C22: within one pass over one trajectory the sub-paths are written in   *)
(* strictly increasing index order: a run handed over later starts, also   *)
(* after the widening of a visible run, at an index greater than the core  *)
(* end of every run handed over before it, and its path is written later.  *)
C22_RunsInIncreasingOrder ==
    \A q \in CallsInOrder :
        /\ calls[q[2]].ka > calls[q[1]].ckb
        /\ \A a \in PathsOfCall(q[1]) : \A b \in PathsOfCall(q[2]) : a < b

(* Two visible runs around one hidden sample, both written as paths: the   *)
(* path of the second run starts at the hidden sample, the sample after    *)
(* the core end of the first                                               *)
C22_Witness ==
    \E q \in CallsInOrder :
        /\ calls[q[1]].type = "visible"
        /\ calls[q[2]].ka = calls[q[1]].ckb + 1
        /\ PathsOfCall(q[1]) # {} /\ PathsOfCall(q[2]) # {}

(* C23: when the next 'p' is looked for, nothing of the trajectory flushed *)
(* before is left: numcoords, numtickmarks and numlabels are 0 and every   *)
(* label length is 0.  So the trajectory that follows the labelled one in  *)
(* the same file is written without label and without tick mark, and with  *)
(* paths through its own two samples only.                                 *)
C23_BuffersDiscardedAfterFlush ==
    /\ pc = "new_trajectory" =>
          /\ st.numcoords = 0 /\ st.numtickmarks = 0 /\ st.numlabels = 0
          /\ \A k \in LabelIdx : st.labellength[k] = 0
    /\ file = LabelledPairFile =>
          \A a \in DOMAIN out :
              out[a].traj = 2 =>
                  /\ out[a].prim \notin {"label", "tick"}
                  /\ IsPath(out[a]) => out[a].kb <= 2

(* Both passes over the file are done: the first trajectory was written    *)
(* with its labels and its tick mark, the second one with a path           *)
C23_Witness ==
    /\ file = LabelledPairFile /\ pc = "done"
    /\ \E a \in DOMAIN out : out[a].prim = "label" /\ out[a].traj = 1
    /\ \E a \in DOMAIN out : out[a].prim = "tick" /\ out[a].traj = 1
    /\ \E a \in DOMAIN out : IsPath(out[a]) /\ out[a].traj = 2

(* The line type the documentation gives for V1: solid for [-0.5,0.5), *)
(* dashed for [0.5,1.5)                                                 *)
DocumentedLineType(v1) == IF v1 = 0 THEN "solid" ELSE "dashed"

(* C24: both halves of every arrow taken from the command line are drawn,  *)
(* both with the line type given by V1 and with the blackness V2.          *)
C24_BothHalvesDrawnInGivenStyle ==
    /\ \A a \in DOMAIN out :
          out[a].prim = "arrow" =>
              /\ out[a].stroke # "none"
              /\ out[a].style = DocumentedLineType(map.arrows[out[a].arrow].v1)
              /\ out[a].blackness = map.arrows[out[a].arrow].v2
    /\ \A h \in ArrowHalves :
          /\ out[h[1]].style = out[h[2]].style
          /\ out[h[1]].blackness = out[h[2]].blackness

(* Both passes have cut the trajectory being flushed, of two samples or    *)
(* more                                                                    *)
BothPassesCut ==
    /\ viewtype = VISIBLE
    /\ pc \in {"add_tickmarks", "add_labels", "reset"}
    /\ st.numcoords >= 2

(* The sub-paths written, in either pass, for the trajectory being flushed *)
PathsOfTrajectory ==
    {a \in HiddenPaths \cup VisiblePaths : out[a].traj = i}

(* C25: with draw_paths_as_arrows, of the sub-paths the two passes write   *)
(* for a trajectory of N >= 2 samples exactly one has an arrowhead, and it *)
(* ends at sample N.                                                       *)
C25_ExactlyOneArrowhead ==
    (BothPassesCut /\ map.draw_paths_as_arrows) =>
        /\ Cardinality({a \in PathsOfTrajectory : IsArrowedPath(a)}) = 1
        /\ \A a \in PathsOfTrajectory :
              IsArrowedPath(a) => out[a].kb = st.numcoords

(* A trajectory cut into a hidden and a visible path, only one of them     *)
(* with the arrowhead; the last sample alone is hidden, so that the        *)
(* arrowhead is on the visible path                                        *)
C25_Witness ==
    /\ BothPassesCut /\ map.draw_paths_as_arrows
    /\ st.visible[st.numcoords] = 0 /\ st.visible[st.numcoords - 1] = 1
    /\ \E a \in PathsOfTrajectory : out[a].type = "hidden"
    /\ \E a \in PathsOfTrajectory :
          out[a].type = "visible" /\ IsArrowedPath(a)

(* C26: every sample 1..N of a trajectory of N >= 2 samples lies on a      *)
(* sub-path written in one of the two passes.                              *)
C26_EverySampleOnAPath ==
    BothPassesCut =>
        \A k \in 1..st.numcoords :
            \E a \in PathsOfTrajectory : out[a].ka <= k /\ k <= out[a].kb

(* A hidden run of one sample was handed over and dropped, and the sample  *)
(* lies on the path of a visible run next to it                            *)
C26_Witness ==
    /\ BothPassesCut
    /\ \E c \in CallsOfTrajectory :
          /\ calls[c].type = "hidden"
          /\ calls[c].cka = calls[c].ckb
          /\ PathsOfCall(c) = {}
          /\ \E a \in PathsOfTrajectory :
                /\ out[a].type = "visible"
                /\ out[a].ka <= calls[c].cka /\ calls[c].cka <= out[a].kb

(* The slot of the end label *)
EndLabelSlot == MAX_NUM_LABELS + 2

(* C27: the end label of a trajectory is anchored at the last sample of    *)
(* that trajectory: the index stored in its slot is numcoords, a sample of *)
(* the trajectory being flushed, in the first and in every later           *)
(* trajectory of the file.                                                 *)
C27_EndLabelAtLastSample ==
    (pc = "add_labels" /\ st.labellength[EndLabelSlot] > 0) =>
        /\ st.label[EndLabelSlot] \in 1..st.numcoords
        /\ st.label[EndLabelSlot] = st.numcoords

(* The tick strokes drawn, in either pass, at sample t of the trajectory   *)
(* being flushed                                                           *)
TickStrokesAt(t) ==
    {a \in DOMAIN out :
        out[a].prim = "tick" /\ out[a].traj = i /\ out[a].at = t}

(* C28: when both passes have written the tick marks of a trajectory, the  *)
(* stroke of each tick mark was drawn exactly once: as a visible one, in   *)
(* black, when its sample is classified visible, and as a hidden one, in   *)
(* the gray tone, when its sample is classified hidden.                    *)
C28_TickStrokeDrawnOnce ==
    (viewtype = VISIBLE /\ pc \in {"add_labels", "reset"}) =>
        \A k \in 1..st.numtickmarks :
            /\ Cardinality(TickStrokesAt(st.tickmark[k])) = 1
            /\ \A a \in TickStrokesAt(st.tickmark[k]) :
                  IF st.visible[st.tickmark[k]] = 1
                  THEN out[a].type = "visible" /\ out[a].style = "black"
                  ELSE out[a].type = "hidden" /\ out[a].style = "graytone"

(* Both passes wrote the tick marks of a trajectory with a tick mark on a  *)
(* visible and a tick mark on a hidden sample                              *)
C28_Witness ==
    /\ viewtype = VISIBLE /\ pc = "add_labels"
    /\ \E k \in 1..st.numtickmarks :
          /\ st.visible[st.tickmark[k]] = 1
          /\ TickStrokesAt(st.tickmark[k]) # {}
    /\ \E k \in 1..st.numtickmarks :
          /\ st.visible[st.tickmark[k]] = 0
          /\ TickStrokesAt(st.tickmark[k]) # {}

(* C29: for the tangent of a tick mark get_tickmark_screen_coordinates()   *)
(* reads samples of the trajectory only: every index it reads lies in      *)
(* 1..numcoords, also for a tick mark on the only sample of a trajectory.  *)
C29_TangentReadsWithinTrajectory ==
    pc = "add_tickmarks" =>
        \A k \in 1..st.numtickmarks :
            \A j \in DOMAIN TickmarkSamples(st, k) :
                TickmarkSamples(st, k)[j] \in 1..st.numcoords

(* The well-formed input files with label statements, and the positions of *)
(* the 'b', 'l' and 'e' statements in the file read                        *)
LabelFiles ==
    {LabelledFile, LabelledPairFile} \cup TickedFiles \cup EndLabelledFiles

LabelStatements == {j \in DOMAIN file : file[j] \in {"b", "l", "e"}}

(* The label statements written to the output *)
LabelsWritten == {a \in DOMAIN out : out[a].prim = "label"}

(* C30: when both passes are done every label scanned (begin, tick or end  *)
(* label) was written twice, once in each pass, with the same anchor       *)
(* point, position and text both times: the output holds two label         *)
(* statements for each label statement of the input, in equal pairs.       *)
C30_EachLabelWrittenTwice ==
    (file \in LabelFiles /\ pc = "done") =>
        /\ Cardinality(LabelsWritten) = 2 * Cardinality(LabelStatements)
        /\ \A a \in LabelsWritten :
              Cardinality({b \in LabelsWritten : out[b] = out[a]}) = 2

====
